---- MODULE Spec2Model ----
(***************************************************************************)
(* State-machine model of the <sitn-gsr-search> custom element             *)
(* (src/src/sitn-gsr-search.ts): debounced place search, abortable search  *)
(* requests, office lookup by intersection, and the three containers       *)
(* (suggestions dropdown, office card, error message) whose `hidden` class *)
(* is the displayed state.                                                 *)
(*                                                                         *)
(* Every action is one task of the browser's event loop: an event handler, *)
(* a timer callback, or the continuation of an awaited fetch, run to       *)
(* completion.  Strings are sequences of one-character strings so that     *)
(* trim() and split() are computed, not assumed.                           *)
(***************************************************************************)
EXTENDS Integers, Sequences, FiniteSets, TLC

\* ------------------------------------------------------------- bounds
\* search fetches in flight at once (aborted ones included)
MaxSearches == 2
\* intersection fetches in flight at once
MaxLookups == 2
\* blur-grace timers pending at once
MaxBlurTimers == 1
\* features in one search response (SpecFilter)
MaxFeatures == 3
\* user events (input, focus, blur, clicks, removal) in one run
MaxEvents == 6
\* characters in the adresse property of an office (SpecAddress)
MaxAddressLen == 4

\* -------------------------------------------------- program constants
\* window.setTimeout(..., 300) in handleSearchInput
DebounceMs == 300
\* setTimeout(..., 200) in handleInputBlur
BlurGraceMs == 200
\* query.length < 3 / query.length >= 3
MinQueryLength == 3

\* ---------------------------------------------------------- strings
Space == " "
\* the values the user gives the input: empty, too short once trimmed,
\* long enough, long enough with a blank before it
Texts ==
  { <<>>, <<Space, "a", "a", Space>>, <<"a", "a", "a">>, <<Space, "a", "a", "a", "a">> }

Min(S) == CHOOSE x \in S : \A y \in S : x <= y

RECURSIVE GCD(_, _)
GCD(a, b) == IF b = 0 THEN a ELSE GCD(b, a % b)

\* the clock's grain: both delays are multiples of it, so every order in
\* which the timers can come due is among the runs
TickMs == GCD(DebounceMs, BlurGraceMs)

RECURSIVE TrimStart(_)
TrimStart(s) ==
  IF s # <<>> /\ Head(s) = Space THEN TrimStart(Tail(s)) ELSE s

RECURSIVE TrimEnd(_)
TrimEnd(s) ==
  IF s # <<>> /\ s[Len(s)] = Space THEN TrimEnd(SubSeq(s, 1, Len(s) - 1)) ELSE s

\* String.prototype.trim
Trim(s) == TrimEnd(TrimStart(s))

\* the value of an absent property
Undefined == <<"undefined">>

\* a || b on strings: the empty string and undefined are falsy
JsOr(a, b) == IF a = Undefined \/ a = <<>> THEN b ELSE a

IsPrefix(p, s) == Len(p) <= Len(s) /\ SubSeq(s, 1, Len(p)) = p

\* String.prototype.split(sep), sep non-empty
RECURSIVE Split(_, _)
Split(s, sep) ==
  LET hits == {i \in 1..Len(s) : IsPrefix(sep, SubSeq(s, i, Len(s)))}
  IN  IF hits = {} THEN <<s>>
      ELSE LET i == Min(hits)
           IN  <<SubSeq(s, 1, i - 1)>> \o Split(SubSeq(s, i + Len(sep), Len(s)), sep)

\* array[i] of a JavaScript array, 0-based
At(arr, i) == IF i + 1 <= Len(arr) THEN arr[i + 1] ELSE Undefined

EscapeChar(c) ==
  CASE c = "&" -> <<"&", "a", "m", "p", ";">>
    [] c = "<" -> <<"&", "l", "t", ";">>
    [] c = ">" -> <<"&", "g", "t", ";">>
    [] OTHER -> <<c>>

\* escapeHtml: textContent in, innerHTML out
RECURSIVE escapeHtml(_)
escapeHtml(text) ==
  IF text = <<>> THEN <<>> ELSE EscapeChar(Head(text)) \o escapeHtml(Tail(text))

\* ---------------------------------------------------- search features
Layers == {"communes", "localite", "gsr002_guichet_social_regional", "adresses"}

LabelOf(layer) ==
  CASE layer = "communes" -> <<"a", "a", "a">>
    [] layer = "localite" -> <<"a", "a", "a", "a">>
    [] layer = "gsr002_guichet_social_regional" -> <<"a", "a", "a">>
    [] OTHER -> <<"a">>

CoordsOf(layer) ==
  CASE layer = "communes" -> 1
    [] layer = "localite" -> 2
    [] layer = "gsr002_guichet_social_regional" -> 3
    [] OTHER -> 4

\* an FTSFeature: properties.layer_name, properties.label, geometry.coordinates
FTSFeature(layer) ==
  [layer_name |-> layer, label |-> LabelOf(layer), coordinates |-> CoordsOf(layer)]

FTSFeatures == {FTSFeature(l) : l \in Layers}

\* every FTSSearchResponse.features of at most MaxFeatures features
AllResponses == UNION {[1..n -> FTSFeatures] : n \in 0..MaxFeatures}

\* the responses the search endpoint gives in the session model
SessionResponses ==
  { <<FTSFeature("adresses")>>,
    <<FTSFeature("localite"), FTSFeature("communes")>>,
    <<FTSFeature("gsr002_guichet_social_regional"), FTSFeature("localite")>> }

NoResult == [kind |-> "none", features |-> <<>>]
Success(fs) == [kind |-> "success", features |-> fs]
ParseFailure == [kind |-> "parse", features |-> <<>>]
NetworkFailure == [kind |-> "network", features |-> <<>>]
AbortError == [kind |-> "AbortError", features |-> <<>>]

\* what the network can answer to a request
Outcomes(responses) ==
  {Success(fs) : fs \in responses} \cup {ParseFailure, NetworkFailure}

\* -------------------------------------------------------- GSR features
Dash == <<Space, "-", Space>>

GsrFull ==
  [nom_gsr |-> <<"N">>, numero_telephone |-> <<>>, email |-> <<"e">>,
   form_prise_contact |-> <<"f">>, informations |-> Undefined,
   adresse |-> <<"A">> \o Dash \o <<"B">>, google_maps |-> <<"g">>]

GsrBlank ==
  [nom_gsr |-> <<>>, numero_telephone |-> Undefined, email |-> <<Space>>,
   form_prise_contact |-> Undefined, informations |-> Undefined,
   adresse |-> <<Space>>, google_maps |-> <<>>]

GsrAddressOnly ==
  [nom_gsr |-> <<>>, numero_telephone |-> Undefined, email |-> Undefined,
   form_prise_contact |-> Undefined, informations |-> Undefined,
   adresse |-> <<"A", "<">>, google_maps |-> <<>>]

GSRFeatures == {GsrFull, GsrBlank, GsrAddressOnly}

\* the responses the intersection endpoint gives in the session model
OfficeResponses == { <<>>, <<GsrFull>>, <<GsrBlank, GsrFull>> }

OfficeSuccess(fs) == [kind |-> "success", features |-> fs]
OfficeFailure == [kind |-> "network", features |-> <<>>]
OfficeOutcomes == {OfficeSuccess(fs) : fs \in OfficeResponses} \cup {OfficeFailure}

\* the characters of an adresse: a letter and the two of the delimiter
AddressChars == {"A", "-", Space}

\* every adresse of at most MaxAddressLen characters
Addresses == UNION {[1..n -> AddressChars] : n \in 0..MaxAddressLen}

\* an office whose only property is its adresse
GsrWithAddress(a) == [GsrAddressOnly EXCEPT !.adresse = a]

\* one office, with any adresse
AddressResponses == {<<GsrWithAddress(a)>> : a \in Addresses}

\* ------------------------------------------------------------ messages
\* the text of the error container: a fixed sentence, and the coordinates
\* interpolated into it (0 when the sentence has none)
Message(sentence, coords) == [sentence |-> sentence, coords |-> coords]
NoMsg == Message("", 0)
SearchErrorMsg ==
  Message("Erreur lors de la recherche, veuillez nous contacter au 032 889 85 02.", 0)
ContactMsg ==
  Message("Aucun guichet trouve. Veuillez nous contacter au 032 889 85 02 ", 0)
NoServiceMsg ==
  Message("Malheureusement aucun service n'a ete trouve pour cet emplacement.", 0)
NotFoundMsg(coords) == Message("Aucun guichet trouve pour les coordonnee ", coords)

\* ------------------------------------------------------ DOM containers
\* suggestionsDropdown: the hidden class and the innerHTML
\* (kind "empty" | "loading" | "no-results" | "items", items the features
\* of the suggestion-item children, in order)
HiddenDropdown == [hidden |-> TRUE, kind |-> "empty", items |-> <<>>]

showLoading(d) == [hidden |-> FALSE, kind |-> "loading", items |-> <<>>]

\* hiding that empties the dropdown as well
hideSuggestionsAndClear(d) == HiddenDropdown

hideSuggestions(d) == [d EXCEPT !.hidden = TRUE]

\* a response that leaves the loading row in place
displaySuggestionsKeepsLoading(d, features) == d

displaySuggestions(d, features) ==
  IF Len(features) = 0
  THEN [hidden |-> FALSE, kind |-> "no-results", items |-> <<>>]
  ELSE [hidden |-> FALSE, kind |-> "items", items |-> features]

showError(e, message) == [hidden |-> FALSE, text |-> message]

\* hideError left out: the message stays displayed
hideErrorForgotten(e) == e

hideError(e) == [e EXCEPT !.hidden = TRUE]

hideOfficeCard(c) == [c EXCEPT !.hidden = TRUE]

NoCard ==
  [title |-> <<>>, adresse |-> <<>>, localite |-> <<>>, google_maps |-> <<>>,
   numero_telephone |-> <<>>, form_prise_contact |-> <<>>, informations |-> <<>>]

\* ------------------------------------------------ search result policy
\* the filter without the guichet layer
IsKeptLayerNoGuichet(f) ==
  \/ f.layer_name = "communes"
  \/ f.layer_name = "localite"

IsKeptLayer(f) ==
  \/ f.layer_name = "communes"
  \/ f.layer_name = "localite"
  \/ f.layer_name = "gsr002_guichet_social_regional"

IsCommune(f) == f.layer_name = "communes"

filteredFeatures(features) == SelectSeq(features, IsKeptLayer)

onlyCommunesFeatures(features) == SelectSeq(filteredFeatures(features), IsCommune)

\* the list performSearch hands to displaySuggestions
SuggestedFeatures(features) ==
  IF Len(onlyCommunesFeatures(features)) = 0
  THEN filteredFeatures(features)
  ELSE onlyCommunesFeatures(features)

\* --------------------------------------------------------- office info
\* the OfficeInfo object built by displayOfficeInfo
OfficeInfoOf(p) ==
  [nom_gsr |-> JsOr(p.nom_gsr, <<>>),
   numero_telephone |-> JsOr(p.numero_telephone, <<>>),
   email |-> JsOr(p.email, <<>>),
   form_prise_contact |-> JsOr(p.form_prise_contact, <<>>),
   informations |-> JsOr(p.informations, <<>>),
   adresse |-> JsOr(At(Split(p.adresse, Dash), 0), p.adresse),
   localite |-> JsOr(At(Split(p.adresse, Dash), 1), <<>>),
   google_maps |-> JsOr(p.google_maps, <<>>)]

hasValidInfo(info) ==
  \E k \in DOMAIN info : info[k] # <<>> /\ Trim(info[k]) # <<>>

DefaultTitle == <<"Guichet social regional">>

\* the innerHTML written into the office card
CardOf(info) ==
  [title |-> JsOr(info.nom_gsr, DefaultTitle),
   adresse |-> escapeHtml(info.adresse),
   localite |-> escapeHtml(info.localite),
   google_maps |-> escapeHtml(info.google_maps),
   numero_telephone |-> escapeHtml(info.numero_telephone),
   form_prise_contact |-> escapeHtml(info.form_prise_contact),
   informations |-> escapeHtml(info.informations)]

\* --------------------------------------------------------------- state
VARIABLES
  inputValue,      \* searchInput.value
  focused,         \* the input has the keyboard focus
  tooltipHidden,   \* tooltip.classList has "hidden"
  dropdown,        \* suggestionsDropdown: [hidden, kind, items]
  officeCard,      \* officeCard: [hidden, content]
  errorContainer,  \* errorContainer: [hidden, text]
  searchTimeout,   \* this.searchTimeout: a timer id, 0 for null
  timers,          \* the pending timeouts: [id, kind, left, query]
  abortController, \* this.abortController: the id of its request, 0 for null
  searches,        \* search fetches not yet settled: [id, query, aborted]
  lookups,         \* intersection fetches not yet settled: [id, feature, superseded]
  disconnected,    \* disconnectedCallback has run
  sinceKey,        \* ms since the last input event (capped)
  lastKeyText,     \* the input's value at the last input event
  firedSinceKey,   \* searches the debounce timer issued since then (capped)
  shortKey,        \* the last of {input, focus} events was an input shorter than 3
  afterPick,       \* a suggestion was picked, no input or focus event since
  burst,           \* input events of the current burst, each less than
                   \* 300 ms after the one before (capped)
  lastLookup,      \* the last office lookup handled, no later pick having
                   \* superseded it, and what was displayed then; forgotten
                   \* at the next user event that is not a suggestion pick
  lastEvent,       \* the task that ran last, and for a settled request whether
                   \* it was superseded, whether aborted, and the network's answer
  nEvents          \* user events so far

ui == <<inputValue, focused, tooltipHidden, dropdown, officeCard, errorContainer>>
net == <<abortController, searches, lookups>>
clock == <<searchTimeout, timers>>
hist == <<sinceKey, lastKeyText, firedSinceKey, burst, shortKey, afterPick, lastLookup,
          lastEvent, nEvents>>
vars == <<ui, net, clock, disconnected, hist>>

\* what the three containers display
Outcome(d, c, e) == [dropdownHidden |-> d.hidden, officeCard |-> c, errorContainer |-> e]

\* no office lookup to remember
NoLookup ==
  [settled |-> FALSE, feature |-> FTSFeature("adresses"), outcome |-> NoResult,
   displayed |-> Outcome(HiddenDropdown, [hidden |-> TRUE, content |-> NoCard],
                         [hidden |-> TRUE, text |-> NoMsg])]

Event(name, stale, aborted, outcome) ==
  [name |-> name, stale |-> stale, aborted |-> aborted, outcome |-> outcome]

\* -------------------------------------------------------------- timers
\* window.setTimeout hands out an id no pending timer has; the id still
\* held in this.searchTimeout is not handed out again either
FreshTimerId(ts, held) ==
  Min({i \in 1..(Cardinality(ts) + 2) : i # held /\ \A t \in ts : t.id # i})

\* clearTimeout left out: the pending timer stays armed
clearTimeoutForgotten(ts, id) == ts

\* clearTimeout(id): a no-op for null and for a timer that has fired
clearTimeout(ts, id) == {t \in ts : t.id # id}

BlurTimers == {t \in timers : t.kind = "blur"}

\* ------------------------------------------------------------ requests
\* a request is named by an id no request in flight has
FreshRequestId(reqs) ==
  Min({i \in 1..(Cardinality(reqs) + 1) : \A r \in reqs : r.id # i})

\* abort() left out: the previous fetch stays bound to a live signal
abortForgotten(reqs, id) == reqs

\* AbortController.abort(): the fetch bound to the signal will reject
abort(reqs, id) ==
  {IF r.id = id THEN [r EXCEPT !.aborted = TRUE] ELSE r : r \in reqs}

\* what `await fetch(...)` / `await response.json()` gives the handler when
\* the network answers `outcome`: an aborted signal rejects with AbortError
FetchResult(r, outcome) == IF r.aborted THEN AbortError ELSE outcome

Init ==
  /\ inputValue = <<>>
  /\ focused = FALSE
  /\ tooltipHidden = FALSE
  /\ dropdown = HiddenDropdown
  /\ officeCard = [hidden |-> TRUE, content |-> NoCard]
  /\ errorContainer = [hidden |-> TRUE, text |-> NoMsg]
  /\ searchTimeout = 0
  /\ timers = {}
  /\ abortController = 0
  /\ searches = {}
  /\ lookups = {}
  /\ disconnected = FALSE
  /\ sinceKey = 0
  /\ lastKeyText = <<>>
  /\ firedSinceKey = 0
  /\ burst = 0
  /\ shortKey = FALSE
  /\ afterPick = FALSE
  /\ lastLookup = NoLookup
  /\ lastEvent = Event("constructor", FALSE, FALSE, NoResult)
  /\ nEvents = 0

\* ------------------------------------------------------------ handlers
updateTooltipVisibility(value) == Trim(value) # <<>>

\* performSearch(query) up to its first await: abort the previous request,
\* install a new controller, show the loading row, send the request
performSearch(query) ==
  /\ Cardinality(searches) < MaxSearches
  /\ LET id == FreshRequestId(searches)
     IN  /\ searches' = abort(searches, abortController)
                          \cup {[id |-> id, query |-> query, aborted |-> FALSE]}
         /\ abortController' = id
  /\ dropdown' = showLoading(dropdown)

\* the "input" event: the browser has set the value to `text`
handleSearchInput(text) ==
  /\ ~disconnected
  /\ focused
  /\ text # inputValue
  /\ inputValue' = text
  /\ LET query == Trim(text)
         cleared == clearTimeout(timers, searchTimeout)
         id == FreshTimerId(cleared, 0)
     IN  /\ errorContainer' = hideError(errorContainer)
         /\ officeCard' = hideOfficeCard(officeCard)
         /\ tooltipHidden' = updateTooltipVisibility(text)
         /\ IF Len(query) < MinQueryLength
            THEN /\ dropdown' = hideSuggestions(dropdown)
                 /\ timers' = cleared
                 /\ searchTimeout' = searchTimeout
            ELSE /\ dropdown' = dropdown
                 /\ timers' = cleared \cup
                      {[id |-> id, kind |-> "search", left |-> DebounceMs, query |-> query]}
                 /\ searchTimeout' = id
         /\ shortKey' = (Len(query) < MinQueryLength)
  /\ sinceKey' = 0
  /\ lastKeyText' = text
  /\ firedSinceKey' = 0
  /\ burst' = IF burst >= 1 /\ sinceKey < DebounceMs THEN 2 ELSE 1
  /\ afterPick' = FALSE
  /\ lastLookup' = NoLookup
  /\ lastEvent' = Event("input", FALSE, FALSE, NoResult)
  /\ nEvents < MaxEvents
  /\ nEvents' = nEvents + 1
  /\ UNCHANGED <<focused, net, disconnected>>

\* the debounce callback: () => this.performSearch(query)
DebounceFires(t) ==
  /\ t \in timers
  /\ t.kind = "search"
  /\ t.left = 0
  /\ timers' = timers \ {t}
  /\ performSearch(t.query)
  /\ firedSinceKey' = IF firedSinceKey < 2 THEN firedSinceKey + 1 ELSE 2
  /\ lastEvent' = Event("debounce", FALSE, FALSE, NoResult)
  /\ nEvents' = nEvents
  /\ UNCHANGED <<inputValue, focused, tooltipHidden, officeCard, errorContainer,
                 searchTimeout, lookups, disconnected,
                 sinceKey, lastKeyText, burst, shortKey, afterPick, lastLookup>>

\* the "blur" event
handleInputBlur ==
  /\ ~disconnected
  /\ focused
  /\ Cardinality(BlurTimers) < MaxBlurTimers
  /\ focused' = FALSE
  /\ timers' = timers \cup
       {[id |-> FreshTimerId(timers, searchTimeout), kind |-> "blur",
         left |-> BlurGraceMs, query |-> <<>>]}
  /\ lastLookup' = NoLookup
  /\ lastEvent' = Event("blur", FALSE, FALSE, NoResult)
  /\ nEvents < MaxEvents
  /\ nEvents' = nEvents + 1
  /\ UNCHANGED <<inputValue, tooltipHidden, dropdown, officeCard, errorContainer,
                 searchTimeout, net, disconnected,
                 sinceKey, lastKeyText, firedSinceKey, burst, shortKey, afterPick>>

\* the blur-grace callback: () => this.hideSuggestions()
BlurFires(t) ==
  /\ t \in timers
  /\ t.kind = "blur"
  /\ t.left = 0
  /\ timers' = timers \ {t}
  /\ dropdown' = hideSuggestions(dropdown)
  /\ lastEvent' = Event("blurTimeout", FALSE, FALSE, NoResult)
  /\ nEvents' = nEvents
  /\ UNCHANGED <<inputValue, focused, tooltipHidden, officeCard, errorContainer,
                 searchTimeout, net, disconnected,
                 sinceKey, lastKeyText, firedSinceKey, burst, shortKey, afterPick, lastLookup>>

\* the "focus" event
handleInputFocus ==
  /\ ~disconnected
  /\ ~focused
  /\ focused' = TRUE
  /\ LET query == Trim(inputValue)
     IN  IF Len(query) >= MinQueryLength
         THEN performSearch(query)
         ELSE UNCHANGED <<dropdown, abortController, searches>>
  /\ shortKey' = FALSE
  /\ afterPick' = FALSE
  /\ lastLookup' = NoLookup
  /\ lastEvent' = Event("focus", FALSE, FALSE, NoResult)
  /\ nEvents < MaxEvents
  /\ nEvents' = nEvents + 1
  /\ UNCHANGED <<inputValue, tooltipHidden, officeCard, errorContainer,
                 clock, lookups, disconnected,
                 sinceKey, lastKeyText, firedSinceKey, burst>>

\* a "click" on the document whose target is outside the element; a pointer
\* click outside the input has taken the focus away before it arrives.  The
\* listener stays registered after disconnectedCallback: removeEventListener
\* is given a new bound function, which was never added.
handleDocumentClick ==
  /\ ~focused
  /\ dropdown' = hideSuggestions(dropdown)
  /\ lastLookup' = NoLookup
  /\ lastEvent' = Event("documentClick", FALSE, FALSE, NoResult)
  /\ nEvents < MaxEvents
  /\ nEvents' = nEvents + 1
  /\ UNCHANGED <<inputValue, focused, tooltipHidden, officeCard, errorContainer,
                 clock, net, disconnected,
                 sinceKey, lastKeyText, firedSinceKey, burst, shortKey, afterPick>>

\* the continuation of performSearch after its awaits, the network having
\* answered request r with `outcome`
performSearchSettles(r, outcome) ==
  /\ r \in searches
  /\ searches' = searches \ {r}
  /\ LET result == FetchResult(r, outcome)
     IN  /\ CASE result.kind = "success" ->
                   /\ dropdown' = displaySuggestions(dropdown, SuggestedFeatures(result.features))
                   /\ errorContainer' = errorContainer
              [] result.kind = "AbortError" ->
                   /\ dropdown' = dropdown
                   /\ errorContainer' = errorContainer
              [] OTHER ->
                   /\ errorContainer' = showError(errorContainer, SearchErrorMsg)
                   /\ dropdown' = hideSuggestions(dropdown)
         /\ lastEvent' = Event("searchSettled", r.id # abortController, r.aborted, outcome)
         /\ nEvents' = nEvents
  /\ UNCHANGED <<inputValue, focused, tooltipHidden, officeCard,
                 clock, abortController, lookups, disconnected,
                 sinceKey, lastKeyText, firedSinceKey, burst, shortKey, afterPick, lastLookup>>

\* a click on the i-th suggestion item, up to the await of fetchOfficeInfo's
\* fetch; the item is clickable while the dropdown is displayed, and a
\* pointer click on it has taken the focus away from the input
handleSuggestionClick(i) ==
  /\ ~disconnected
  /\ ~focused
  /\ ~dropdown.hidden
  /\ dropdown.kind = "items"
  /\ i \in 1..Len(dropdown.items)
  /\ Cardinality(lookups) < MaxLookups
  /\ dropdown' = hideSuggestions(dropdown)
  /\ errorContainer' = hideError(errorContainer)
  /\ inputValue' = dropdown.items[i].label
  /\ lookups' = {[l EXCEPT !.superseded = TRUE] : l \in lookups} \cup
       {[id |-> FreshRequestId(lookups), feature |-> dropdown.items[i],
         superseded |-> FALSE]}
  /\ afterPick' = TRUE
  /\ lastEvent' = Event("suggestionClick", FALSE, FALSE, NoResult)
  /\ nEvents < MaxEvents
  /\ nEvents' = nEvents + 1
  /\ UNCHANGED <<focused, tooltipHidden, officeCard,
                 clock, abortController, searches, disconnected,
                 sinceKey, lastKeyText, firedSinceKey, burst, shortKey, lastLookup>>

\* displayOfficeInfo(feature): the not-found message or the office card
displayOfficeInfo(properties) ==
  LET officeInfo == OfficeInfoOf(properties)
  IN  IF ~hasValidInfo(officeInfo)
      THEN /\ errorContainer' = showError(errorContainer, NoServiceMsg)
           /\ officeCard' = officeCard
      ELSE /\ officeCard' = [hidden |-> FALSE, content |-> CardOf(officeInfo)]
           /\ errorContainer' = errorContainer

\* the continuation of fetchOfficeInfo after its awaits, and the catch of
\* handleSuggestionClick, the network having answered lookup l with `outcome`
fetchOfficeInfoSettles(l, outcome) ==
  /\ l \in lookups
  /\ lookups' = lookups \ {l}
  /\ CASE outcome.kind # "success" ->
            /\ errorContainer' = showError(errorContainer, ContactMsg)
            /\ officeCard' = officeCard
       [] outcome.kind = "success" /\ Len(outcome.features) = 0 ->
            /\ errorContainer' = showError(errorContainer, NotFoundMsg(l.feature.coordinates))
            /\ officeCard' = officeCard
       [] OTHER -> displayOfficeInfo(outcome.features[1])
  /\ lastLookup' =
       IF l.superseded THEN lastLookup
       ELSE [settled |-> TRUE, feature |-> l.feature, outcome |-> outcome,
             displayed |-> Outcome(dropdown, officeCard', errorContainer')]
  /\ lastEvent' = Event("officeSettled", l.superseded, FALSE, outcome)
  /\ nEvents' = nEvents
  /\ UNCHANGED <<inputValue, focused, tooltipHidden, dropdown,
                 clock, abortController, searches, disconnected,
                 sinceKey, lastKeyText, firedSinceKey, burst, shortKey, afterPick>>

\* the element is removed from the document
disconnectedCallback ==
  /\ ~disconnected
  /\ disconnected' = TRUE
  /\ focused' = FALSE
  /\ timers' = clearTimeout(timers, searchTimeout)
  /\ searches' = abort(searches, abortController)
  /\ lastLookup' = NoLookup
  /\ lastEvent' = Event("disconnected", FALSE, FALSE, NoResult)
  /\ nEvents < MaxEvents
  /\ nEvents' = nEvents + 1
  /\ UNCHANGED <<inputValue, tooltipHidden, dropdown, officeCard, errorContainer,
                 searchTimeout, abortController, lookups,
                 sinceKey, lastKeyText, firedSinceKey, burst, shortKey, afterPick>>

\* time passes, up to the next timer that is due and at most TickMs
Tick ==
  /\ \A t \in timers : t.left > 0
  /\ LET d == Min({t.left : t \in timers} \cup {TickMs})
     IN  /\ timers' = {[t EXCEPT !.left = t.left - d] : t \in timers}
         /\ sinceKey' = IF sinceKey + d > DebounceMs THEN DebounceMs + 1 ELSE sinceKey + d
  /\ lastEvent' = Event("tick", FALSE, FALSE, NoResult)
  /\ nEvents' = nEvents
  /\ UNCHANGED <<ui, net, searchTimeout, disconnected,
                 lastKeyText, firedSinceKey, burst, shortKey, afterPick, lastLookup>>

Next ==
  \/ \E text \in Texts : handleSearchInput(text)
  \/ \E t \in timers : DebounceFires(t)
  \/ handleInputBlur
  \/ \E t \in timers : BlurFires(t)
  \/ handleInputFocus
  \/ handleDocumentClick
  \/ \E r \in searches, o \in Outcomes(SessionResponses) : performSearchSettles(r, o)
  \/ \E i \in 1..MaxFeatures : handleSuggestionClick(i)
  \/ \E l \in lookups, o \in OfficeOutcomes : fetchOfficeInfoSettles(l, o)
  \/ disconnectedCallback
  \/ Tick

Spec == Init /\ [][Next]_vars

\* one search, the endpoint answering with any list of at most MaxFeatures
\* features
NextFilter ==
  \/ handleInputFocus
  \/ handleSearchInput(<<"a", "a", "a">>)
  \/ \E t \in timers : DebounceFires(t)
  \/ \E r \in searches, o \in Outcomes(AllResponses) : performSearchSettles(r, o)
  \/ Tick

SpecFilter == Init /\ [][NextFilter]_vars

\* every search request in flight is answered at last: its fetch resolves
\* or rejects, and the continuation of performSearch runs
NetworkAnswers ==
  \E r \in searches, o \in Outcomes(SessionResponses) : performSearchSettles(r, o)

\* a text too short to search and two to search for
LiveTexts == { <<>>, <<"a", "a", "a">>, <<Space, "a", "a", "a", "a">> }

\* the search side of the element: every event but the suggestion pick
NextLive ==
  \/ \E text \in LiveTexts : handleSearchInput(text)
  \/ \E t \in timers : DebounceFires(t)
  \/ handleInputBlur
  \/ \E t \in timers : BlurFires(t)
  \/ handleInputFocus
  \/ handleDocumentClick
  \/ NetworkAnswers
  \/ disconnectedCallback
  \/ Tick

SpecLive == Init /\ [][NextLive]_vars /\ WF_vars(NetworkAnswers)

\* one search listing a commune, picks of it, the intersection endpoint
\* answering with an office of any adresse
NextAddress ==
  \/ handleInputFocus
  \/ handleSearchInput(<<"a", "a", "a">>)
  \/ \E t \in timers : DebounceFires(t)
  \/ \E r \in searches : performSearchSettles(r, Success(<<FTSFeature("communes")>>))
  \/ handleInputBlur
  \/ \E t \in timers : BlurFires(t)
  \/ handleSuggestionClick(1)
  \/ \E l \in lookups, fs \in AddressResponses : fetchOfficeInfoSettles(l, OfficeSuccess(fs))
  \/ Tick

SpecAddress == Init /\ [][NextAddress]_vars

\* ----------------------------------------------------------- properties
SearchTimers == {t \in timers : t.kind = "search"}

Outstanding(reqs) == {r \in reqs : ~r.aborted}

\* the suggestion list the dropdown displays
DisplayedList == IF dropdown.kind = "items" THEN dropdown.items ELSE <<>>

Display == <<dropdown, officeCard, errorContainer>>

\* C1: when the outcome of a search request arrives after a later search
\* was started, whatever the outcome, nothing displayed changes: the
\* dropdown keeps its content and visibility, no error is shown.
C1_SupersededSearchChangesNothing ==
  [][(lastEvent'.name = "searchSettled" /\ lastEvent'.stale)
       => UNCHANGED <<Display, inputValue, tooltipHidden>>]_vars

\* a superseded search was answered with a list of features
C1_Witness ==
  /\ lastEvent.name = "searchSettled"
  /\ lastEvent.stale
  /\ lastEvent.outcome.kind = "success"
  /\ SuggestedFeatures(lastEvent.outcome.features) # <<>>
  /\ dropdown.kind = "loading"

\* C2: when the response of an office lookup arrives after a later lookup
\* was started, it shows neither the office card nor an error message.
C2_SupersededLookupChangesNothing ==
  [][(lastEvent'.name = "officeSettled" /\ lastEvent'.stale)
       => UNCHANGED <<officeCard, errorContainer>>]_vars

\* C3: a burst of input events ending in a text of trimmed length >= 3
\* issues exactly one search: until it fires, one debounce timer is pending,
\* due 300 ms after the last input event and holding its trimmed text; it
\* fires once, at 300 ms, and the request carries that text.
C3_OneSearchPerBurst ==
  /\ firedSinceKey <= 1
  /\ (Len(Trim(lastKeyText)) >= MinQueryLength /\ ~disconnected) =>
       IF firedSinceKey = 0
       THEN /\ Cardinality(SearchTimers) = 1
            /\ \A t \in SearchTimers :
                 t.query = Trim(lastKeyText) /\ t.left = DebounceMs - sinceKey
       ELSE SearchTimers = {}
  /\ lastEvent.name = "debounce" =>
       /\ sinceKey = DebounceMs
       /\ firedSinceKey = 1
       /\ \E r \in searches :
            r.id = abortController /\ ~r.aborted /\ r.query = Trim(lastKeyText)

\* the debounce timer of a burst of two or more input events has fired, and
\* the text of the last one had blanks to trim
C3_Witness ==
  /\ lastEvent.name = "debounce"
  /\ burst = 2
  /\ Trim(lastKeyText) # lastKeyText

\* C4: after an input event whose trimmed text is shorter than 3, and until
\* the next input event of length >= 3 or focus event, no debounce timer is
\* pending and the dropdown is hidden.
C4_ShortInputKeepsDropdownHidden ==
  shortKey => (SearchTimers = {} /\ dropdown.hidden)

\* the list the filtering law asks for
IsLocaliteOrGuichet(f) ==
  f.layer_name = "localite" \/ f.layer_name = "gsr002_guichet_social_regional"

LawfulList(features) ==
  IF \E i \in 1..Len(features) : features[i].layer_name = "communes"
  THEN SelectSeq(features, IsCommune)
  ELSE SelectSeq(features, IsLocaliteOrGuichet)

\* C5: once a search response is displayed, the suggestion list is the
\* communes features of the response in their order if it has any, else its
\* localite and gsr002_guichet_social_regional features in their order.
C5_FilteringLaw ==
  (lastEvent.name = "searchSettled" /\ ~lastEvent.aborted
     /\ lastEvent.outcome.kind = "success")
    => /\ ~dropdown.hidden
       /\ dropdown.kind \in {"items", "no-results"}
       /\ DisplayedList = LawfulList(lastEvent.outcome.features)

\* a response mixing a commune with other layers was displayed, and one
\* without communes mixing kept and dropped layers
C5_Witness ==
  /\ lastEvent.name = "searchSettled"
  /\ ~lastEvent.aborted
  /\ lastEvent.outcome.kind = "success"
  /\ Len(lastEvent.outcome.features) = MaxFeatures
  /\ Len(DisplayedList) = 2
  /\ \E i \in 1..MaxFeatures : lastEvent.outcome.features[i].layer_name = "adresses"

\* C6: at most one search request and at most one office lookup are
\* outstanding.
C6_AtMostOneOutstanding ==
  /\ Cardinality(Outstanding(searches)) <= 1
  /\ Cardinality(lookups) <= 1

\* C7: the office card and the error message are never visible together.
C7_CardAndErrorExclusive ==
  ~(~officeCard.hidden /\ ~errorContainer.hidden)

\* C8: a suggestion pick leaves the dropdown, the office card and the error
\* hidden and the input holding the chosen label, with its lookup issued.
C8_PickClearsDisplay ==
  lastEvent.name = "suggestionClick" =>
    /\ dropdown.hidden
    /\ officeCard.hidden
    /\ errorContainer.hidden
    /\ \E l \in lookups : ~l.superseded /\ inputValue = l.feature.label

\* C9: after disconnectedCallback nothing displayed changes any more.
C9_NoChangeAfterRemoval ==
  [][disconnected => UNCHANGED Display]_vars

\* C10: from a suggestion pick to the next input or focus event the dropdown
\* stays hidden and no search error is shown.
C10_DisplayFollowsPick ==
  afterPick =>
    /\ dropdown.hidden
    /\ ~(~errorContainer.hidden /\ errorContainer.text = SearchErrorMsg)

\* C11: an input event leaves the office card and the error message
\* hidden, and the response of an office lookup that was in flight at the
\* input event (so issued before it) leaves both hidden.
C11_KeystrokeOutlivesOldLookup ==
  [][/\ lastEvent'.name = "input" => (officeCard'.hidden /\ errorContainer'.hidden)
     /\ (lastEvent.name = "input" /\ lastEvent'.name = "officeSettled")
          => (officeCard'.hidden /\ errorContainer'.hidden)]_vars

\* C12: once the outcome of a search that is neither superseded nor cut off
\* by removal is handled, exactly one display follows from it: a non-empty
\* filtered list is listed in the dropdown; an empty one gives the
\* no-results message in the dropdown with the search error message not
\* shown; a network or parse failure gives the search error message with
\* the dropdown hidden.
C12_OutcomeMapsToOneDisplay ==
  (lastEvent.name = "searchSettled" /\ ~lastEvent.stale /\ ~lastEvent.aborted) =>
    IF lastEvent.outcome.kind = "success"
    THEN IF SuggestedFeatures(lastEvent.outcome.features) # <<>>
         THEN /\ ~dropdown.hidden
              /\ dropdown.kind = "items"
              /\ dropdown.items = SuggestedFeatures(lastEvent.outcome.features)
         ELSE /\ ~dropdown.hidden
              /\ dropdown.kind = "no-results"
              /\ ~(~errorContainer.hidden /\ errorContainer.text = SearchErrorMsg)
    ELSE /\ ~errorContainer.hidden
         /\ errorContainer.text = SearchErrorMsg
         /\ dropdown.hidden

\* C13: once the response of an office lookup that no later pick superseded
\* is handled, the display follows from the response alone: zero features
\* give the not-found message with the coordinates of a suggestion and no
\* office card; one or more features give the outcome of the first feature
\* (its card, or the no-service message and no card); a failure gives the
\* support-contact message and no office card.
C13_DisplayFollowsResponse ==
  (lastEvent.name = "officeSettled" /\ ~lastEvent.stale) =>
    CASE lastEvent.outcome.kind # "success" ->
           /\ errorContainer = [hidden |-> FALSE, text |-> ContactMsg]
           /\ officeCard.hidden
      [] lastEvent.outcome.kind = "success" /\ Len(lastEvent.outcome.features) = 0 ->
           /\ \E f \in FTSFeatures :
                errorContainer = [hidden |-> FALSE, text |-> NotFoundMsg(f.coordinates)]
           /\ officeCard.hidden
      [] OTHER ->
           LET officeInfo == OfficeInfoOf(lastEvent.outcome.features[1])
           IN  IF hasValidInfo(officeInfo)
               THEN officeCard = [hidden |-> FALSE, content |-> CardOf(officeInfo)]
               ELSE /\ errorContainer = [hidden |-> FALSE, text |-> NoServiceMsg]
                    /\ officeCard.hidden

\* every extracted field is empty or blank
AllBlank(info) == \A k \in DOMAIN info : Trim(info[k]) = <<>>

\* C14: once a lookup response with at least one feature is handled (the
\* lookup not superseded), if every field extracted from the first feature
\* is blank after trimming, the office card is not shown and the no-service
\* message is shown.
C14_BlankOfficeIsNotFound ==
  (lastEvent.name = "officeSettled" /\ ~lastEvent.stale
     /\ lastEvent.outcome.kind = "success" /\ Len(lastEvent.outcome.features) > 0) =>
    (AllBlank(OfficeInfoOf(lastEvent.outcome.features[1])) =>
       /\ officeCard.hidden
       /\ errorContainer = [hidden |-> FALSE, text |-> NoServiceMsg])

\* the delimiter occurs in s
HasDash(s) == \E i \in 1..Len(s) : IsPrefix(Dash, SubSeq(s, i, Len(s)))

\* C15: once the office of a lookup response is handled, for every way of
\* writing its adresse as A, " - ", B with no further " - " in A or in B
\* (A or B may be empty), the extracted address line is A and the locality
\* is B; and when the adresse has no " - ", the address line is the whole
\* adresse and the locality is empty.
C15_AddressSplitLaw ==
  (lastEvent.name = "officeSettled" /\ lastEvent.outcome.kind = "success"
     /\ Len(lastEvent.outcome.features) > 0) =>
    LET combined == lastEvent.outcome.features[1].adresse
        officeInfo == OfficeInfoOf(lastEvent.outcome.features[1])
    IN  /\ \A i \in 1..Len(combined) :
             LET A == SubSeq(combined, 1, i - 1)
                 B == SubSeq(combined, i + Len(Dash), Len(combined))
             IN  (combined = A \o Dash \o B /\ ~HasDash(A) /\ ~HasDash(B))
                   => (officeInfo.adresse = A /\ officeInfo.localite = B)
        /\ ~HasDash(combined) =>
             (officeInfo.adresse = combined /\ officeInfo.localite = <<>>)

\* C16: when the response of a lookup is handled (no later pick having
\* superseded it), and the lookup handled before it was for the same
\* suggestion and got the same answer, with no user event between the two
\* but the second pick, what is displayed is what was displayed after the
\* first: the same card and visibility of it, the same message and
\* visibility of it, the same visibility of the dropdown.
C16_PickTwiceSameOutcome ==
  [][(/\ lastEvent'.name = "officeSettled"
      /\ ~lastEvent'.stale
      /\ lastLookup.settled
      /\ lastLookup'.feature = lastLookup.feature
      /\ lastLookup'.outcome = lastLookup.outcome)
       => lastLookup'.displayed = lastLookup.displayed]_vars

\* a search or an office lookup has failed: its message is, or was until
\* hidden, the text of the error container
HasFailed == errorContainer.text \in {SearchErrorMsg, ContactMsg}

\* the outcome handled last is a network or parse failure
FailureHandled ==
  /\ lastEvent.name \in {"searchSettled", "officeSettled"}
  /\ ~lastEvent.aborted
  /\ lastEvent.outcome.kind # "success"

\* C17: in every state after a search or lookup failure, the element not
\* removed: an input event leaves the error hidden; after one of trimmed
\* length >= 3 one debounce timer is pending, due 300 ms after it, and when
\* it fires a request for the trimmed text is outstanding; a successful
\* response to a search not superseded is displayed in the dropdown.  And
\* handling a failure issues no request and arms no timer.
C17_NoFailureIsFatal ==
  [][/\ (HasFailed' /\ ~disconnected') =>
          /\ lastEvent'.name = "input" => errorContainer'.hidden
          /\ (Len(Trim(lastKeyText')) >= MinQueryLength /\ firedSinceKey' = 0) =>
               /\ Cardinality(SearchTimers') = 1
               /\ \A t \in SearchTimers' :
                    t.query = Trim(lastKeyText') /\ t.left = DebounceMs - sinceKey'
          /\ lastEvent'.name = "debounce" =>
               /\ sinceKey' = DebounceMs
               /\ \E r \in searches' :
                    r.id = abortController' /\ ~r.aborted /\ r.query = Trim(lastKeyText')
          /\ (lastEvent'.name = "searchSettled" /\ ~lastEvent'.stale
                /\ ~lastEvent'.aborted /\ lastEvent'.outcome.kind = "success") =>
               /\ ~dropdown'.hidden
               /\ DisplayedList' = SuggestedFeatures(lastEvent'.outcome.features)
     /\ FailureHandled' =>
          /\ timers' = timers
          /\ searches' \subseteq searches
          /\ lookups' \subseteq lookups]_vars

\* after a failed search the text was changed, the debounce timer fired and
\* the response to its request is listed
C17_Witness ==
  /\ errorContainer = [hidden |-> TRUE, text |-> SearchErrorMsg]
  /\ lastEvent.name = "searchSettled"
  /\ ~lastEvent.stale
  /\ lastEvent.outcome.kind = "success"
  /\ firedSinceKey = 1
  /\ ~dropdown.hidden
  /\ dropdown.kind = "items"

\* C18: when a focus event has followed the blur within the 200 ms grace
\* (the input is focused while the blur timer is pending), its text of
\* trimmed length >= 3, and a search has opened the dropdown, the blur timer
\* does not hide that dropdown.
C18_StaleBlurTimerIsCancelled ==
  [][(/\ lastEvent'.name = "blurTimeout"
      /\ focused
      /\ Len(Trim(inputValue)) >= MinQueryLength
      /\ ~dropdown.hidden
      /\ dropdown.kind = "loading")
       => ~dropdown'.hidden]_vars

\* C19: a click outside the element and a blur-grace timeout leave the
\* dropdown hidden with its content as it was, and leave the office card,
\* the error message, the input value, the pending debounce timer and the
\* requests in flight unchanged.
C19_ClosingChangesOnlyDropdown ==
  [][lastEvent'.name \in {"documentClick", "blurTimeout"} =>
       /\ dropdown'.hidden
       /\ dropdown'.kind = dropdown.kind
       /\ dropdown'.items = dropdown.items
       /\ UNCHANGED <<officeCard, errorContainer, inputValue, tooltipHidden>>
       /\ SearchTimers' = SearchTimers
       /\ UNCHANGED <<searchTimeout, abortController, searches, lookups>>]_vars

\* the blur timer has hidden the loading row of a search still running,
\* a debounce timer pending
C19_Witness ==
  /\ lastEvent.name = "blurTimeout"
  /\ dropdown.hidden
  /\ dropdown.kind = "loading"
  /\ Outstanding(searches) # {}
  /\ SearchTimers # {}

\* the dropdown holds the loading row of a search that is neither
\* superseded nor cut off
LoadingLive == dropdown.kind = "loading" /\ Outstanding(searches) # {}

\* C20: the network answering every request, whenever the dropdown holds
\* the loading row of a search in flight that is not superseded, then at
\* last the row is replaced by a suggestion list or the no-results message,
\* or the search error message is shown, or the element is removed.
C20_LoadingEnds ==
  LoadingLive ~>
    \/ dropdown.kind \in {"items", "no-results"}
    \/ (~errorContainer.hidden /\ errorContainer.text = SearchErrorMsg)
    \/ disconnected

\* the loading row of a search not superseded was replaced by the
\* no-results message
C20_Witness ==
  /\ lastEvent.name = "searchSettled"
  /\ ~lastEvent.stale
  /\ ~lastEvent.aborted
  /\ dropdown.kind = "no-results"
  /\ ~dropdown.hidden
  /\ searches = {}

====
